---- MODULE Spec2Model ----
(***************************************************************************)
(* TaskUpdateQueue of flamenco_worker/upstream_update_queue.py: a durable  *)
(* SQLite-backed queue of task updates, its producers (queue), the drain   *)
(* loop (work / flush_and_catch / flush) and the one-shot drain            *)
(* (flush_and_report).  Two coroutines can be inside flush(): "work", the  *)
(* drain loop, and "report", a caller of flush_and_report.  The may-I-run  *)
(* poller (MayIRun), whose tests are in tests/test_may_i_run.py, is the    *)
(* last part of the module.                                                *)
(***************************************************************************)
EXTENDS Integers, Sequences, FiniteSets, TLC

\* ---- bounds of the model ------------------------------------------------
MaxEnq == 3          \* queue() calls in a behaviour
MaxFail == 2         \* POSTs that end in an error in a behaviour
MaxReports == 2      \* flush_and_report() calls in a behaviour
MaxCrash == 1        \* process crashes in a behaviour (SpecCrash only)
CapRows == 1002      \* rows in the store at the start of SpecCap
LiveMaxEnq == 3      \* queue() calls in a behaviour of SpecLive and SpecCrash
CrashMaxFail == 1    \* POSTs that end in an error in a behaviour of SpecCrash
MaxPolls == 3        \* GET /may-i-run/<task_id> requests in a behaviour
MaxCancel == 1       \* cancellations of the work() task in a behaviour
MaxStoreFail == 1    \* sqlite3 calls that raise in a behaviour

\* ---- program constants --------------------------------------------------
HandledCap == 1000   \* "if handled > 1000"

Urls == {"/tasks/1/update", "/tasks/2/update"}
Procs == {"work", "report"}
\* What manager.post() can end in: a 2xx response, a 409 response, any other
\* error status, or requests.ConnectionError raised by the call itself.
Responses == {"2xx", "409", "err", "conn"}

VARIABLES
    store,          \* table fworker_queue: set of rows (rowid, url, payload)
    stuff_queued,   \* asyncio.Event _stuff_queued
    queue_lock,     \* asyncio.Lock _queue_lock: its holder, or "none"
    shutdown_done,  \* shutdown_future.done()
    prefetch,       \* whether the sqlite3 cursor steps one row ahead
    pc,             \* where each coroutine is
    cur,            \* flush(): the row of the current iteration (in flight)
    nxt,            \* the cursor's row fetched ahead (prefetch builds)
    handled,        \* flush(): local counter handled (0 once the frame of
                    \* flush_and_catch or flush_and_report is gone)
    ret,            \* outcome of the coroutine's last flush() call, until the
                    \* drain loop is back at its loop head
    enq,            \* history: number of committed queue() calls
    posted,         \* history: payloads handed to manager.post, in order
    acked,          \* history: updates whose POST returned 2xx
    discarded,      \* history: updates whose POST returned 409
    fails,          \* history: number of POSTs that raised
    reports,        \* history: number of flush_and_report() calls
    failed_uid,     \* history: update whose POST failed the loop's last pass
    slept,          \* history: the loop slept backoff_time since that failure
    retried,        \* history: the loop began a pass since that failure
    crashes,        \* history: number of crashes
    at_crash,       \* history: updates in the store at the last crash
    restart_at,     \* history: Len(posted) at the last crash
    mgr_acked,      \* history: updates the Manager has acknowledged (2xx or
                    \* 409), whether or not the answer reached flush()
    cancels,        \* history: number of cancellations of the work() task
    store_fails,    \* history: number of sqlite3 calls that raised
    mir_pc,         \* where the may-I-run coroutine is
    answers,        \* history: the Manager's answers to GET /may-i-run/<id>
    results,        \* history: what the calls of may_i_run returned
    status_calls,   \* history: arguments of worker.change_status
    gets,           \* history: number of GET /may-i-run/<id> issued
    naps,           \* history: number of poll_interval sleeps ended
    stops           \* history: number of worker.stop_current_task calls

hist == <<failed_uid, slept, retried, crashes, at_crash, restart_at>>

\* the may-I-run poller
poll == <<mir_pc, answers, results, status_calls, gets, naps, stops>>

\* what the queue's own steps leave alone, but for the Manager's side
ext0 == <<cancels, store_fails, poll>>

ext == <<mgr_acked, ext0>>

vars == <<store, stuff_queued, queue_lock, shutdown_done, prefetch, pc, cur,
          nxt, handled, ret, enq, posted, acked, discarded, fails, reports,
          failed_uid, slept, retried, crashes, at_crash, restart_at, ext>>

\* the poller before it is started
PollInit ==
    /\ mir_pc = "idle"
    /\ answers = <<>>
    /\ results = <<>>
    /\ status_calls = <<>>
    /\ gets = 0
    /\ naps = 0
    /\ stops = 0

\* nothing acknowledged, cancelled or failed yet
ExtInit ==
    /\ mgr_acked = {}
    /\ cancels = 0
    /\ store_fails = 0
    /\ PollInit

\* ---- the store ------------------------------------------------------------
\* pickle.dumps / pickle.loads: the blob is not the payload, loads undoes dumps.
Pickle(payload) == <<"pickle", payload>>

Unpickle(blob) == blob[2]

NoRow == [rowid |-> 0, url |-> "", payload |-> <<>>]

Uid(row) == Unpickle(row.payload)

StoreUids(s) == {Uid(r) : r \in s}

MaxRowid(s) == CHOOSE m \in {r.rowid : r \in s} : \A r \in s : r.rowid <= m

\* SQLite's implicit rowid: one more than the largest rowid in the table, 1 for
\* an empty table (no AUTOINCREMENT, so a rowid can be used again).
NextRowid(s) == IF s = {} THEN 1 ELSE MaxRowid(s) + 1

\* INSERT INTO fworker_queue (url, payload) values (?, ?)
Insert(s, url, payload) ==
    s \cup {[rowid |-> NextRowid(s), url |-> url, payload |-> Pickle(payload)]}

\* One step of the cursor of "SELECT ... ORDER BY rowid ASC" that stands after
\* rowid r: the row with the smallest rowid above r, or NoRow at the end.
\* (ORDER BY rowid DESC instead of ASC)
FetchAfter_Desc(s, r) ==
    LET above == {x \in s : x.rowid > r}
    IN IF above = {} THEN NoRow
       ELSE CHOOSE x \in above : \A y \in above : x.rowid >= y.rowid

FetchAfter(s, r) ==
    LET above == {x \in s : x.rowid > r}
    IN IF above = {} THEN NoRow
       ELSE IF \E x \in above : x.rowid = r + 1
            THEN CHOOSE x \in above : x.rowid = r + 1
            ELSE CHOOSE x \in above : \A y \in above : x.rowid <= y.rowid

\* SELECT count(*) FROM fworker_queue
queue_size(s) == Cardinality(s)

\* (a pass that leaves the answered row in the table)
Unqueue_Kept(s, rowid) == s

\* (the TODO of flush(): delete all queued updates to the same URL)
Unqueue_SameUrl(s, rowid) ==
    {r \in s : \A x \in s : x.rowid = rowid => r.url # x.url}

\* DELETE FROM fworker_queue WHERE rowid=?
Unqueue(s, rowid) == {r \in s : r.rowid # rowid}

\* ---- pieces of flush() ----------------------------------------------------
\* (flush() without the lock)
LockFree_Always(lock) == TRUE

\* "with (await self._queue_lock)" goes on only when nobody holds the lock.
LockFree(lock) == lock = "none"

\* (no special case for 409)
IsConflict_Never(resp) == FALSE

\* resp.status_code == 409
IsConflict(resp) == resp = "409"

\* (raise_for_status() left out)
StatusRaises_Never(resp) == FALSE

\* resp.raise_for_status() raises HTTPError on every 4xx and 5xx status.
StatusRaises(resp) == resp \in {"409", "err"}

\* The iteration raises: manager.post raised ConnectionError, or the status is
\* not 409 and raise_for_status() raised.
Raises(resp) == resp = "conn" \/ (~IsConflict(resp) /\ StatusRaises(resp))

\* A POST that did not deliver: connection error or error status other than 409.
IsFailure(resp) == resp \in {"err", "conn"}

\* (clear the event whenever the pass leaves the table empty)
EventAfterPass_Drained(queue_is_empty, ev, store_after) ==
    IF store_after = {} THEN FALSE ELSE ev

\* (clear the event at the end of every pass)
EventAfterPass_Always(queue_is_empty, ev, store_after) == FALSE

\* "if queue_is_empty: self._stuff_queued.clear()"
EventAfterPass(queue_is_empty, ev, store_after) ==
    IF queue_is_empty THEN FALSE ELSE ev

\* (return whether the table is empty after the pass)
FlushResult_EmptyAfter(queue_is_empty, store_after) ==
    IF store_after = {} THEN "True" ELSE "False"

\* "return queue_is_empty"
FlushResult(queue_is_empty, store_after) ==
    IF queue_is_empty THEN "True" ELSE "False"

\* "handled += 1; if handled > 1000: break", h being the incremented counter
TakeBreak(h) == h > HandledCap

\* The row the for-loop gets after the iteration of row r, s being the table
\* after r's deletion: the row fetched ahead, or a fresh step of the cursor.
NextOfCursor(s, r, ahead) == IF prefetch THEN ahead ELSE FetchAfter(s, r.rowid)

\* The row the cursor fetches ahead when it hands out row r.
Ahead(s, r) == IF prefetch /\ r # NoRow THEN FetchAfter(s, r.rowid) ELSE NoRow

\* Where a coroutine goes when its flush() returned.
AfterFlush(p) == IF p = "work" THEN "check" ELSE "idle"

\* (a drain loop that gives up when its pass raised)
AfterRaise_Fatal(p) == IF p = "work" THEN "stopped" ELSE "idle"

\* (flush_and_report handling errors as flush_and_catch does)
AfterRaise_AllSleep(p) == "backoff"

\* (flush_and_catch without the sleep)
AfterRaise_NoSleep(p) == IF p = "work" THEN "check" ELSE "idle"

\* Where a coroutine goes when its flush() raised: flush_and_catch sleeps
\* backoff_time, flush_and_report just returns.
AfterRaise(p) == IF p = "work" THEN "backoff" ELSE "idle"

\* (work() without the initial set())
EventAtWorkStart_Kept == stuff_queued

\* work(): "self._stuff_queued.set()" before the loop
EventAtWorkStart == TRUE

\* ---- initial state ----------------------------------------------------------
Init ==
    /\ store = {}
    /\ stuff_queued = FALSE
    /\ queue_lock = "none"
    /\ shutdown_done = FALSE
    /\ prefetch \in BOOLEAN
    /\ pc = [p \in Procs |-> "idle"]
    /\ cur = [p \in Procs |-> NoRow]
    /\ nxt = [p \in Procs |-> NoRow]
    /\ handled = [p \in Procs |-> 0]
    /\ ret = [p \in Procs |-> "none"]
    /\ enq = 0
    /\ posted = <<>>
    /\ acked = {}
    /\ discarded = {}
    /\ fails = 0
    /\ reports = 0
    /\ failed_uid = 0
    /\ slept = FALSE
    /\ retried = FALSE
    /\ crashes = 0
    /\ at_crash = {}
    /\ restart_at = 0
    /\ ExtInit

\* ---- queue(url, payload) ----------------------------------------------------
\* (queue() taking the lock of the drain pass before it inserts)
QueueCanRun_NeedsLock(lock) == lock = "none"

\* queue() is a plain function: it has no await and never touches _queue_lock,
\* so it runs to its end whoever holds the lock.
QueueCanRun(lock) == TRUE

\* (queue() that commits the row and leaves the event alone)
EventAfterQueue_Kept == stuff_queued

\* queue(): "self._stuff_queued.set()" after the commit
EventAfterQueue == TRUE

Enqueue(url) ==
    /\ enq < MaxEnq
    /\ QueueCanRun(queue_lock)
    /\ store' = Insert(store, url, enq + 1)
    /\ enq' = enq + 1
    /\ stuff_queued' = EventAfterQueue
    /\ UNCHANGED <<queue_lock, shutdown_done, prefetch, pc, cur, nxt, handled,
                   ret, posted, acked, discarded, fails, reports, hist>>
    /\ UNCHANGED ext

\* ---- work() ---------------------------------------------------------------
WorkStart ==
    /\ pc["work"] = "idle"
    /\ stuff_queued' = EventAtWorkStart
    /\ pc' = [pc EXCEPT !["work"] = "check"]
    /\ UNCHANGED <<store, queue_lock, shutdown_done, prefetch, cur, nxt,
                   handled, ret, enq, posted, acked, discarded, fails,
                   reports, hist>>
    /\ UNCHANGED ext

\* (a loop that never looks at shutdown_future)
LoopEnds_Never(done) == FALSE

\* "while not self.shutdown_future.done()"
LoopEnds(done) == done

\* The head of the loop in work(); after the loop, 'Stopping work loop'.
WorkCheck ==
    /\ pc["work"] = "check"
    /\ pc' = [pc EXCEPT !["work"] = IF LoopEnds(shutdown_done) THEN "stopped"
                                                              ELSE "wait"]
    /\ ret' = [ret EXCEPT !["work"] = "none"]
    /\ UNCHANGED <<store, stuff_queued, queue_lock, shutdown_done, prefetch,
                   cur, nxt, handled, enq, posted, acked, discarded,
                   fails, reports, hist>>
    /\ UNCHANGED ext

\* wait_for(self._stuff_queued.wait(), shutdown_recheck_time) returns
WorkWake ==
    /\ pc["work"] = "wait"
    /\ stuff_queued
    /\ pc' = [pc EXCEPT !["work"] = "flush"]
    /\ UNCHANGED <<store, stuff_queued, queue_lock, shutdown_done, prefetch,
                   cur, nxt, handled, ret, enq, posted, acked, discarded,
                   fails, reports, hist>>
    /\ UNCHANGED ext

\* wait_for raises TimeoutError: continue
WorkTimeout ==
    /\ pc["work"] = "wait"
    /\ ~stuff_queued
    /\ pc' = [pc EXCEPT !["work"] = "check"]
    /\ UNCHANGED <<store, stuff_queued, queue_lock, shutdown_done, prefetch,
                   cur, nxt, handled, ret, enq, posted, acked, discarded,
                   fails, reports, hist>>
    /\ UNCHANGED ext

\* asyncio.sleep(self.backoff_time) in flush_and_catch ends
BackoffDone ==
    /\ pc["work"] = "backoff"
    /\ pc' = [pc EXCEPT !["work"] = "check"]
    /\ slept' = TRUE
    /\ handled' = [handled EXCEPT !["work"] = 0]
    /\ UNCHANGED <<store, stuff_queued, queue_lock, shutdown_done, prefetch,
                   cur, nxt, ret, enq, posted, acked, discarded, fails,
                   reports, failed_uid, retried, crashes, at_crash,
                   restart_at>>
    /\ UNCHANGED ext

\* ---- flush_and_report() is called --------------------------------------------
ReportCall ==
    /\ pc["report"] = "idle"
    /\ reports < MaxReports
    /\ reports' = reports + 1
    /\ pc' = [pc EXCEPT !["report"] = "flush"]
    /\ handled' = [handled EXCEPT !["report"] = 0]
    /\ ret' = [ret EXCEPT !["report"] = "none"]
    /\ UNCHANGED <<store, stuff_queued, queue_lock, shutdown_done, prefetch,
                   cur, nxt, enq, posted, acked, discarded, fails, hist>>
    /\ UNCHANGED ext

\* ---- flush() ------------------------------------------------------------------
\* The end of a pass that raised nothing, s being the table it leaves:
\* the event, the return value, the release of the lock.
PassEnds(p, queue_is_empty, s) ==
    /\ stuff_queued' = EventAfterPass(queue_is_empty, stuff_queued, s)
    /\ ret' = [ret EXCEPT ![p] = FlushResult(queue_is_empty, s)]
    /\ queue_lock' = "none"
    /\ pc' = [pc EXCEPT ![p] = AfterFlush(p)]
    /\ cur' = [cur EXCEPT ![p] = NoRow]
    /\ nxt' = [nxt EXCEPT ![p] = NoRow]

\* The for-loop hands out row r and flush() suspends in manager.post.
PassPosts(p, r, s) ==
    /\ cur' = [cur EXCEPT ![p] = r]
    /\ nxt' = [nxt EXCEPT ![p] = Ahead(s, r)]
    /\ posted' = Append(posted, [url |-> r.url, payload |-> Unpickle(r.payload)])
    /\ queue_lock' = p
    /\ pc' = [pc EXCEPT ![p] = "post"]
    /\ UNCHANGED <<stuff_queued, ret>>

\* The lock is acquired; up to the first await of manager.post, or up to the
\* return when the table is empty, nothing else runs.
FlushBegin(p) ==
    /\ pc[p] = "flush"
    /\ LockFree(queue_lock)
    /\ handled' = [handled EXCEPT ![p] = 0]
    /\ LET first == FetchAfter(store, 0)
       IN IF first = NoRow
          THEN PassEnds(p, TRUE, store) /\ UNCHANGED posted
          ELSE PassPosts(p, first, store)
    /\ retried' = IF p = "work" THEN TRUE ELSE retried
    /\ UNCHANGED <<store, shutdown_done, prefetch, enq, acked, discarded,
                   fails, reports, failed_uid, slept, crashes, at_crash,
                   restart_at>>
    /\ UNCHANGED ext

\* The Manager's answer to the POST in flight of coroutine p, as history.
Answer(p, resp) ==
    /\ IsFailure(resp) => fails < MaxFail
    /\ fails' = IF IsFailure(resp) THEN fails + 1 ELSE fails
    /\ acked' = IF resp = "2xx" THEN acked \cup {Uid(cur[p])} ELSE acked
    /\ discarded' = IF resp = "409" THEN discarded \cup {Uid(cur[p])}
                    ELSE discarded
    /\ mgr_acked' = IF IsFailure(resp) THEN mgr_acked
                    ELSE mgr_acked \cup {Uid(cur[p])}

\* manager.post returned a response that raises nothing: the row is unqueued
\* and the pass goes on with the next row, if any and if not over the cap.
PostAnswered(p) ==
    /\ pc[p] = "post"
    /\ \E resp \in Responses :
        /\ ~Raises(resp)
        /\ Answer(p, resp)
    /\ store' = Unqueue(store, cur[p].rowid)
    /\ LET next == NextOfCursor(store', cur[p], nxt[p])
       IN IF TakeBreak(handled[p] + 1) \/ next = NoRow
          THEN /\ PassEnds(p, FALSE, store')
               /\ handled' = [handled EXCEPT ![p] = 0]
               /\ UNCHANGED posted
          ELSE /\ PassPosts(p, next, store')
               /\ handled' = [handled EXCEPT ![p] = handled[p] + 1]
    /\ UNCHANGED <<shutdown_done, prefetch, enq, reports, hist>>
    /\ UNCHANGED ext0

\* manager.post or raise_for_status raised: the with-block releases the lock
\* and the exception reaches flush_and_catch or flush_and_report.
PostRaises(p) ==
    /\ pc[p] = "post"
    /\ \E resp \in Responses :
        /\ Raises(resp)
        /\ Answer(p, resp)
    /\ queue_lock' = "none"
    /\ ret' = [ret EXCEPT ![p] = "raised"]
    /\ pc' = [pc EXCEPT ![p] = AfterRaise(p)]
    /\ cur' = [cur EXCEPT ![p] = NoRow]
    /\ nxt' = [nxt EXCEPT ![p] = NoRow]
    /\ IF p = "work"
       THEN failed_uid' = Uid(cur[p]) /\ slept' = FALSE /\ retried' = FALSE
       ELSE UNCHANGED <<failed_uid, slept, retried>>
    /\ UNCHANGED <<store, stuff_queued, shutdown_done, prefetch, handled, enq,
                   posted, reports, crashes, at_crash, restart_at>>
    /\ UNCHANGED ext0

\* ---- the environment ------------------------------------------------------------
\* shutdown_future gets a result or is cancelled
Shutdown ==
    /\ ~shutdown_done
    /\ shutdown_done' = TRUE
    /\ UNCHANGED <<store, stuff_queued, queue_lock, prefetch, pc, cur, nxt,
                   handled, ret, enq, posted, acked, discarded, fails,
                   reports, hist>>
    /\ UNCHANGED ext

\* The process dies and is started again: the committed rows of the SQLite
\* file are all that is left, every object and coroutine is new.
Crash ==
    /\ crashes < MaxCrash
    /\ crashes' = crashes + 1
    /\ at_crash' = StoreUids(store)
    /\ restart_at' = Len(posted)
    /\ stuff_queued' = FALSE
    /\ queue_lock' = "none"
    /\ shutdown_done' = FALSE
    /\ pc' = [p \in Procs |-> "idle"]
    /\ cur' = [p \in Procs |-> NoRow]
    /\ nxt' = [p \in Procs |-> NoRow]
    /\ handled' = [p \in Procs |-> 0]
    /\ ret' = [p \in Procs |-> "none"]
    /\ failed_uid' = 0
    /\ slept' = FALSE
    /\ retried' = FALSE
    /\ UNCHANGED <<store, prefetch, enq, posted, acked, discarded, fails,
                   reports>>
    /\ UNCHANGED ext

\* The producers of the main specification send the updates of one task.
Next ==
    \/ Enqueue("/tasks/1/update")
    \/ WorkStart
    \/ WorkCheck
    \/ WorkWake
    \/ WorkTimeout
    \/ BackoffDone
    \/ ReportCall
    \/ \E p \in Procs : FlushBegin(p)
    \/ \E p \in Procs : PostAnswered(p)
    \/ \E p \in Procs : PostRaises(p)
    \/ Shutdown

Spec == Init /\ [][Next]_vars

PostedUids == {posted[i].payload : i \in DOMAIN posted}

TypeOK ==
    /\ stuff_queued \in BOOLEAN
    /\ queue_lock \in Procs \cup {"none"}
    /\ \A p \in Procs : pc[p] \in {"idle", "check", "wait", "flush", "post",
                                   "backoff", "stopped", "cancelled"}
    /\ enq \in 0..MaxEnq

\* ---- helpers of the properties ------------------------------------------------
Enqueued == 1..enq

Answered == acked \cup discarded

Count(u) == Cardinality({i \in DOMAIN posted : posted[i].payload = u})

FirstPost(u) ==
    CHOOSE i \in DOMAIN posted :
        posted[i].payload = u /\ \A j \in 1..(i - 1) : posted[j].payload # u

InPost == {p \in Procs : pc[p] = "post"}

\* ---- C1 -------------------------------------------------------------------------
\* C1: no update is lost: every update committed by queue() is still in the
\* store unless a POST of that very update returned 2xx or 409.
C1_NoUpdateLost ==
    \A u \in Enqueued : u \in StoreUids(store) \/ u \in Answered

\* An update was acknowledged and removed, another one is still queued after
\* a failed POST, and a flush_and_report has been called.
C1_Witness ==
    /\ fails >= 1
    /\ reports >= 1
    /\ Answered # {}
    /\ store # {}
    /\ \E u \in Enqueued : u \notin StoreUids(store)

\* ---- C3 -------------------------------------------------------------------------
\* C3: FIFO: of two updates a, b with queue(a) before queue(b), the first POST
\* of a comes before the first POST of b, and b is not removed from the store
\* while a is still in it.
C3_Fifo ==
    \A a, b \in Enqueued :
        a < b =>
            /\ b \in PostedUids =>
                  (a \in PostedUids /\ FirstPost(a) < FirstPost(b))
            /\ b \notin StoreUids(store) => a \notin StoreUids(store)

\* Update 2 is in flight again after an error, in a later pass than update 1,
\* and update 3 was enqueued while the cursor had already met the end.
C3_Witness ==
    \E p \in Procs :
        /\ pc[p] = "post"
        /\ Uid(cur[p]) = 2
        /\ Count(2) >= 2
        /\ 1 \in acked
        /\ prefetch /\ nxt[p] = NoRow
        /\ 3 \in StoreUids(store)

\* ---- C4 -------------------------------------------------------------------------
\* The producers send the updates of two tasks to the drain loop; no shutdown,
\* no flush_and_report.
UrlNext ==
    \/ \E url \in Urls : Enqueue(url)
    \/ WorkStart
    \/ WorkCheck
    \/ WorkWake
    \/ WorkTimeout
    \/ BackoffDone
    \/ FlushBegin("work")
    \/ PostAnswered("work")
    \/ PostRaises("work")

SpecUrls == Init /\ [][UrlNext]_vars

\* The step in which the POST in flight of coroutine p is answered with 409.
ConflictStep(p) == pc[p] = "post" /\ Uid(cur[p]) \in discarded' \ discarded

\* C4: a 409 removes exactly the row that was POSTed, the pass goes on with the
\* next row of its cursor (unless it is over the cap), and the discarded update
\* is never POSTed again.
C4_ConflictDiscardsOneRow ==
    /\ [](\A p \in Procs : pc[p] = "post" => Uid(cur[p]) \notin discarded)
    /\ [](discarded \cap StoreUids(store) = {})
    /\ [][\A p \in Procs : ConflictStep(p) =>
            /\ cur[p] \in store
            /\ store' = store \ {cur[p]}
            /\ LET next == NextOfCursor(store', cur[p], nxt[p])
               IN (next # NoRow /\ handled[p] + 1 <= HandledCap) =>
                     (pc'[p] = "post" /\ cur'[p] = next /\ queue_lock' = p)
            /\ posted' # posted =>
                  posted'[Len(posted')].payload \notin discarded']_vars

\* The pass that got a 409 for its previous row is POSTing the next row, and a
\* third row with the URL of the discarded one is still queued.
C4_Witness ==
    \E p \in Procs :
        /\ pc[p] = "post"
        /\ handled[p] >= 1
        /\ Len(posted) >= 2
        /\ posted[Len(posted) - 1].payload \in discarded
        /\ \E r \in store :
              r # cur[p] /\ r.url = posted[Len(posted) - 1].url

\* ---- C6 -------------------------------------------------------------------------
\* The step in which the POST in flight of coroutine p fails.
FailStep(p) == pc[p] = "post" /\ fails' # fails

\* C6: a failed POST (connection error or error status other than 409) ends
\* the pass: no further row is POSTed, the lock is released, and the store,
\* the failing row included, is left as it was.
C6_FailureStopsPass ==
    [][\A p \in Procs : FailStep(p) =>
          /\ store' = store
          /\ cur[p] \in store'
          /\ posted' = posted
          /\ pc'[p] # "post"
          /\ queue_lock' = "none"]_vars

\* A pass has just failed on its second row or later: the rows it got
\* acknowledged are gone, the failing row and a later one are queued.
C6_Witness ==
    \E p \in Procs :
        /\ ret[p] = "raised"
        /\ handled[p] >= 1
        /\ queue_lock = "none"
        /\ posted[Len(posted)].payload \in StoreUids(store)
        /\ posted[Len(posted) - 1].payload \in Answered
        /\ \E r \in store : Uid(r) > posted[Len(posted)].payload

\* ---- C8 -------------------------------------------------------------------------
\* C8: at most one pass at a time: a coroutine is inside the loop of flush()
\* only as the holder of the lock, no two are, and a coroutine that waits for
\* the lock stays where it is and has no row until the lock is free.
C8_OnePassAtATime ==
    /\ [](Cardinality(InPost) <= 1)
    /\ [](\A p \in Procs : pc[p] = "post" <=> queue_lock = p)
    /\ [](\A p \in Procs : pc[p] # "post" => cur[p] = NoRow)
    /\ [][\A q \in Procs : (pc[q] = "flush" /\ queue_lock \notin {"none", q}) =>
            (pc'[q] = "flush" /\ cur'[q] = NoRow)]_vars

\* flush_and_report waits for the lock while the drain loop's pass is
\* suspended in a POST.
C8_Witness ==
    /\ pc["work"] = "post"
    /\ pc["report"] = "flush"
    /\ queue_lock = "work"

\* ---- C7 -------------------------------------------------------------------------
\* The step in which the drain loop, holding the lock, begins its first pass
\* after a pass of its own that failed.
RetryBegins ==
    /\ pc["work"] = "flush"
    /\ pc'["work"] # "flush"
    /\ failed_uid # 0
    /\ ~retried

\* The drain loop is between a failed pass of its own and its next pass.
AwaitingRetry ==
    /\ failed_uid # 0
    /\ ~retried
    /\ pc["work"] \in {"backoff", "check", "wait"}

\* C7 as stated: after a failed pass the drain loop sleeps backoff_time, the
\* event is still set, the next pass begins with the row that failed, and after
\* one failure followed by success that row has been POSTed exactly twice.
C7_RetryBeginsWithFailedRow ==
    /\ [](AwaitingRetry => stuff_queued)
    /\ []((failed_uid # 0 /\ pc["work"] # "backoff") => slept)
    /\ []((fails = 1 /\ failed_uid \in acked) => Count(failed_uid) = 2)
    /\ [][RetryBegins =>
            (pc'["work"] = "post" /\ Uid(cur'["work"]) = failed_uid)]_vars

\* C7 amended: the same, as long as the failed row is still in the store; it
\* is gone only when a pass of flush_and_report got it answered meanwhile.
C7_RetryAfterBackoff ==
    /\ []((AwaitingRetry /\ failed_uid \in StoreUids(store)) => stuff_queued)
    /\ []((failed_uid # 0 /\ pc["work"] # "backoff") => slept)
    /\ []((failed_uid # 0 /\ pc["work"] = "backoff") => ~slept)
    /\ []((fails = 1 /\ failed_uid \in acked) => Count(failed_uid) = 2)
    /\ [][RetryBegins =>
            IF failed_uid \in StoreUids(store)
            THEN pc'["work"] = "post" /\ Uid(cur'["work"]) = failed_uid
            ELSE failed_uid \in Answered /\ reports >= 1]_vars

\* One failure in a pass of the drain loop, then the loop slept, began its
\* next pass with the failed row and got it accepted, with no flush_and_report.
C7_Witness ==
    /\ fails = 1
    /\ failed_uid \in acked
    /\ slept
    /\ retried
    /\ reports = 0
    /\ Count(failed_uid) = 2

\* ---- C10 ------------------------------------------------------------------------
\* The step in which the pass of coroutine p ends without an error.
PassEndsOk(p) ==
    /\ pc[p] \in {"flush", "post"}
    /\ pc'[p] \notin {"flush", "post"}
    /\ ret'[p] \in {"True", "False"}

\* C10 as stated: a pass that ends without error clears the event if it left
\* the store empty and leaves it set if rows remain.
C10_ClearedIffDrained ==
    [][\A p \in Procs : PassEndsOk(p) =>
          (IF store' = {} THEN ~stuff_queued' ELSE stuff_queued')]_vars

\* C10 amended: a pass that ends without error clears the event only if it
\* found the store empty when it started; a pass that POSTed a row leaves the
\* event set, also when it left the store empty.
C10_ClearedIffFoundEmpty ==
    [][\A p \in Procs : PassEndsOk(p) =>
          (IF pc[p] = "flush"
           THEN store = {} /\ store' = {} /\ ~stuff_queued'
           ELSE stuff_queued /\ stuff_queued')]_vars

\* A pass has delivered every row and returned: the store is empty and the
\* event is still set.
C10_Witness ==
    /\ \E p \in Procs : ret[p] = "False"
    /\ queue_lock = "none"
    /\ store = {}
    /\ acked # {}
    /\ stuff_queued

\* ---- C9 -------------------------------------------------------------------------
\* More rows than the cap are queued and the Manager accepts every POST;
\* flush_and_report makes the passes.
CapInit ==
    /\ store = {[rowid |-> i, url |-> "/tasks/1/update", payload |-> Pickle(i)] :
                  i \in 1..CapRows}
    /\ stuff_queued = TRUE
    /\ queue_lock = "none"
    /\ shutdown_done = FALSE
    /\ prefetch \in BOOLEAN
    /\ pc = [p \in Procs |-> "idle"]
    /\ cur = [p \in Procs |-> NoRow]
    /\ nxt = [p \in Procs |-> NoRow]
    /\ handled = [p \in Procs |-> 0]
    /\ ret = [p \in Procs |-> "none"]
    /\ enq = CapRows
    /\ posted = <<>>
    /\ acked = {}
    /\ discarded = {}
    /\ fails = 0
    /\ reports = 0
    /\ failed_uid = 0
    /\ slept = FALSE
    /\ retried = FALSE
    /\ crashes = 0
    /\ at_crash = {}
    /\ restart_at = 0
    /\ ExtInit

PostAccepted(p) == PostAnswered(p) /\ acked' # acked

CapNext ==
    \/ ReportCall
    \/ FlushBegin("report")
    \/ PostAccepted("report")

SpecCap == CapInit /\ [][CapNext]_vars

\* C9: one pass POSTs and removes at most 1000 rows: while the pass is
\* suspended in a POST, the rows it has removed and the row in flight are
\* together no more than 1000.
C9_PassHandlesAtMost1000 ==
    \A p \in Procs : pc[p] = "post" => handled[p] + 1 <= HandledCap

\* ---- the drain loop under fair scheduling -----------------------------------------
\* Producers that enqueue at most LiveMaxEnq times.
LiveEnqueue ==
    /\ enq < LiveMaxEnq
    /\ Enqueue("/tasks/1/update")

\* No shutdown: the drain loop keeps running.
LiveNext ==
    \/ LiveEnqueue
    \/ WorkStart
    \/ WorkCheck
    \/ WorkWake
    \/ WorkTimeout
    \/ BackoffDone
    \/ ReportCall
    \/ \E p \in Procs : FlushBegin(p)
    \/ \E p \in Procs : PostAnswered(p)
    \/ \E p \in Procs : PostRaises(p)

\* work() is started and the event loop runs it whenever it can go on; every
\* sleep ends; the Manager answers every POST, and after finitely many errors
\* (MaxFail) with 2xx or 409.
LoopFairness ==
    /\ WF_vars(WorkStart)
    /\ WF_vars(WorkCheck)
    /\ WF_vars(WorkWake)
    /\ WF_vars(WorkTimeout)
    /\ WF_vars(BackoffDone)
    /\ WF_vars(FlushBegin("work"))
    /\ \A p \in Procs : WF_vars(PostAnswered(p))

SpecLive == Init /\ [][LiveNext]_vars /\ LoopFairness

\* C2: eventual delivery: with a Manager that ends up answering 2xx or 409
\* and producers that stop, the drain loop reaches, for good, a state where
\* every enqueued update has been POSTed and queue_size() is 0.
C2_EventualDelivery ==
    <>[](queue_size(store) = 0 /\ \A u \in Enqueued : u \in PostedUids)

\* The loop is idle after it delivered every update, errors included.
C2_Witness ==
    /\ enq = LiveMaxEnq
    /\ fails >= 1
    /\ queue_size(store) = 0
    /\ \A u \in Enqueued : u \in PostedUids
    /\ pc["work"] = "wait"
    /\ ~stuff_queued

\* ---- C5 -------------------------------------------------------------------------
\* At most CrashMaxFail POSTs fail.
CrashPostRaises == fails < CrashMaxFail /\ PostRaises("work")

\* The drain loop alone, with crashes and restarts; no shutdown.
CrashNext ==
    \/ LiveEnqueue
    \/ WorkStart
    \/ WorkCheck
    \/ WorkWake
    \/ WorkTimeout
    \/ BackoffDone
    \/ FlushBegin("work")
    \/ PostAnswered("work")
    \/ CrashPostRaises
    \/ Crash

SpecCrash == Init /\ [][CrashNext]_vars /\ LoopFairness

PostedSince == {posted[i].payload : i \in (restart_at + 1)..Len(posted)}

FirstSince(u) ==
    CHOOSE i \in (restart_at + 1)..Len(posted) :
        posted[i].payload = u
        /\ \A j \in (restart_at + 1)..(i - 1) : posted[j].payload # u

\* C5: crash durability: a crash removes no row; the restarted drain loop has
\* the event set from its start, so that it goes on without a new enqueue; it
\* POSTs the rows that were queued at the crash in their enqueue order, and
\* it ends up having POSTed every row that was queued at the last crash.
C5_CrashDurability ==
    /\ [][crashes' # crashes => store' = store]_vars
    /\ [](\A u \in Enqueued : u \in StoreUids(store) \/ u \in Answered)
    /\ []((pc["work"] \in {"check", "wait"} /\ store # {}) => stuff_queued)
    /\ [](\A a, b \in at_crash :
            (a < b /\ b \in PostedSince) =>
                (a \in PostedSince /\ FirstSince(a) < FirstSince(b)))
    /\ <>[](at_crash \subseteq PostedSince)

\* Three updates were enqueued, the process crashed before any POST, and the
\* restarted loop has delivered all three with no enqueue after the crash.
C5_Witness ==
    /\ crashes = 1
    /\ restart_at = 0
    /\ at_crash = {1, 2, 3}
    /\ enq = 3
    /\ acked = {1, 2, 3}
    /\ store = {}

\* ---- C11 ------------------------------------------------------------------------
\* More rows than the cap are queued, the Manager accepts every POST and the
\* drain loop makes pass after pass.
CapLoopNext ==
    \/ WorkStart
    \/ WorkCheck
    \/ WorkWake
    \/ WorkTimeout
    \/ FlushBegin("work")
    \/ PostAccepted("work")

SpecCapLoop == CapInit /\ [][CapLoopNext]_vars

\* C11: flush() returns True exactly when the store had no row at the start
\* of the pass, the lock being held: a pass that POSTed a row returns False,
\* whether it delivered every row or stopped at the cap.
C11_TrueIffEmptyBefore ==
    [][\A p \in Procs : PassEndsOk(p) =>
          /\ ret'[p] = "True" <=> (pc[p] = "flush" /\ store = {})
          /\ pc[p] = "post" => ret'[p] = "False"]_vars

\* The pass that stopped at the cap has returned False and left a row.
C11_Witness ==
    /\ pc["work"] = "check"
    /\ ret["work"] = "False"
    /\ Cardinality(acked) = HandledCap + 1
    /\ store # {}

\* ---- C12 ------------------------------------------------------------------------
\* C12: flush_and_report makes one pass per call and returns after it,
\* whatever the pass ended in: a failed POST sends it back to its caller with
\* the store as it was, with no sleep and no further POST.
C12_ReportOnePassNoRetry ==
    /\ [](pc["report"] \in {"idle", "flush", "post"})
    /\ [][(pc["report"] # "flush" /\ pc'["report"] = "flush") =>
            (pc["report"] = "idle" /\ reports' = reports + 1)]_vars
    /\ [][(pc["report"] = "post" /\ pc'["report"] # "post") =>
            pc'["report"] = "idle"]_vars
    /\ [][FailStep("report") =>
            /\ pc'["report"] = "idle"
            /\ ret'["report"] = "raised"
            /\ store' = store
            /\ posted' = posted
            /\ queue_lock' = "none"]_vars

\* flush_and_report has returned from a pass that failed; rows are queued.
C12_Witness ==
    /\ pc["report"] = "idle"
    /\ ret["report"] = "raised"
    /\ reports >= 1
    /\ store # {}
    /\ \E i \in DOMAIN posted : posted[i].payload \in StoreUids(store)

\* ---- C13 ------------------------------------------------------------------------
\* Producers, flush_and_report callers and the shutdown request act at any
\* time; the Manager may fail POSTs of the loop (up to CrashMaxFail).
StopNext ==
    \/ LiveEnqueue
    \/ WorkStart
    \/ WorkCheck
    \/ WorkWake
    \/ WorkTimeout
    \/ BackoffDone
    \/ ReportCall
    \/ \E p \in Procs : FlushBegin(p)
    \/ \E p \in Procs : PostAnswered(p)
    \/ CrashPostRaises
    \/ Shutdown

\* The event loop runs work() whenever it can go on, every sleep ends and
\* every POST ends: it fails or it is answered.
StopFairness ==
    /\ WF_vars(WorkCheck)
    /\ WF_vars(WorkWake)
    /\ WF_vars(WorkTimeout)
    /\ WF_vars(BackoffDone)
    /\ WF_vars(FlushBegin("work"))
    /\ \A p \in Procs : WF_vars(PostAnswered(p))

SpecStop == Init /\ [][StopNext]_vars /\ StopFairness

\* C13: once shutdown_future is done, a running work() returns: from the
\* event wait, from inside a pass and from the backoff sleep alike, rows
\* queued or not.
C13_StopsOnShutdown ==
    /\ (shutdown_done /\ pc["work"] # "idle") ~> (pc["work"] = "stopped")
    /\ [][pc["work"] = "stopped" => pc'["work"] = "stopped"]_vars

\* work() has returned on shutdown with a row queued that no POST delivered.
C13_Witness ==
    /\ pc["work"] = "stopped"
    /\ shutdown_done
    /\ store # {}
    /\ fails >= 1
    /\ Answered = {}

\* ---- C14 ------------------------------------------------------------------------
\* A call of queue() has just returned.
EnqueueStep == enq' = enq + 1

\* C14: queue() never waits for the drainer: it can run in every state, also
\* while a pass holds the lock with a POST in flight, and it is one step that
\* adds exactly one row and sets the event, leaving the lock and the pass in
\* flight as they were.
C14_ProducersNeverBlock ==
    /\ [](enq < MaxEnq => ENABLED Enqueue("/tasks/1/update"))
    /\ [][EnqueueStep =>
            /\ store \subseteq store'
            /\ Cardinality(store') = Cardinality(store) + 1
            /\ stuff_queued'
            /\ queue_lock' = queue_lock
            /\ pc' = pc
            /\ cur' = cur
            /\ posted' = posted]_vars

\* A row was queued while a pass was suspended in a POST: the pass still
\* holds the lock, its POST is still in flight, the new row is in the store.
C14_Witness ==
    \E p \in Procs :
        /\ pc[p] = "post"
        /\ queue_lock = p
        /\ stuff_queued
        /\ \E r \in store : /\ r.rowid > cur[p].rowid
                            /\ Unpickle(r.payload) > posted[Len(posted)].payload

\* ---- the may-I-run poller (MayIRun) -------------------------------------------
\* What the Manager can ask the worker to become.
Statuses == {"asleep", "shutdown"}

\* The answers to GET /may-i-run/<task_id>:
\* {may_keep_running: bool, reason?: string, status_requested?: string};
\* status_requested is a key that is there or not.
MirResponses ==
    [may_keep_running : BOOLEAN]
    \cup [may_keep_running : BOOLEAN, status_requested : Statuses]

\* (a poller that passes on every status_requested it is sent)
RequestedStatus_Always(resp) ==
    IF "status_requested" \in DOMAIN resp THEN <<resp.status_requested>>
    ELSE <<>>

\* The calls of worker.change_status an answer leads to: one, with the status
\* asked for, when the task may not keep running and a status is requested.
RequestedStatus(resp) ==
    IF ~resp.may_keep_running /\ "status_requested" \in DOMAIN resp
    THEN <<resp.status_requested>>
    ELSE <<>>

\* What may_i_run(task_id) returns for an answer.
MayKeepRunning(resp) == resp.may_keep_running

\* may_i_run(task_id) from the answer to its return.
MayIRunReturns(resp) ==
    /\ answers' = Append(answers, resp)
    /\ results' = Append(results, MayKeepRunning(resp))
    /\ status_calls' = status_calls \o RequestedStatus(resp)

\* may_i_run(task_id) is called and issues its GET.
MayIRunCall ==
    /\ mir_pc = "idle"
    /\ gets < MaxPolls
    /\ gets' = gets + 1
    /\ mir_pc' = "call"
    /\ UNCHANGED <<answers, results, status_calls, naps, stops>>
    /\ UNCHANGED <<store, stuff_queued, queue_lock, shutdown_done, prefetch,
                   pc, cur, nxt, handled, ret, enq, posted, acked, discarded,
                   fails, reports, hist, mgr_acked, cancels, store_fails>>

\* The GET of a call of may_i_run is answered and the call returns.
MayIRunAnswered(resp) ==
    /\ mir_pc = "call"
    /\ MayIRunReturns(resp)
    /\ mir_pc' = "idle"
    /\ UNCHANGED <<gets, naps, stops>>
    /\ UNCHANGED <<store, stuff_queued, queue_lock, shutdown_done, prefetch,
                   pc, cur, nxt, handled, ret, enq, posted, acked, discarded,
                   fails, reports, hist, mgr_acked, cancels, store_fails>>

\* (a poller that goes on polling a task it has stopped)
AfterAnswer_KeepsPolling(may_run) == "sleep"

\* The poller loop after an answer: sleep poll_interval and ask again, or,
\* the task being aborted, end (its loop is cancelled when no task is active).
AfterAnswer(may_run) == IF may_run THEN "sleep" ELSE "done"

\* The poller loop starts with a task and issues its first GET.
PollStart ==
    /\ mir_pc = "idle"
    /\ gets < MaxPolls
    /\ gets' = gets + 1
    /\ mir_pc' = "get"
    /\ UNCHANGED <<answers, results, status_calls, naps, stops>>
    /\ UNCHANGED <<store, stuff_queued, queue_lock, shutdown_done, prefetch,
                   pc, cur, nxt, handled, ret, enq, posted, acked, discarded,
                   fails, reports, hist, mgr_acked, cancels, store_fails>>

\* The GET of the loop is answered: no action when the task may keep running,
\* else worker.stop_current_task() after the status change, if any.
PollAnswered(resp) ==
    /\ mir_pc = "get"
    /\ MayIRunReturns(resp)
    /\ stops' = IF MayKeepRunning(resp) THEN stops ELSE stops + 1
    /\ mir_pc' = AfterAnswer(MayKeepRunning(resp))
    /\ UNCHANGED <<gets, naps>>
    /\ UNCHANGED <<store, stuff_queued, queue_lock, shutdown_done, prefetch,
                   pc, cur, nxt, handled, ret, enq, posted, acked, discarded,
                   fails, reports, hist, mgr_acked, cancels, store_fails>>

\* poll_interval is over: the next GET.
PollNap ==
    /\ mir_pc = "sleep"
    /\ gets < MaxPolls
    /\ naps' = naps + 1
    /\ gets' = gets + 1
    /\ mir_pc' = "get"
    /\ UNCHANGED <<answers, results, status_calls, stops>>
    /\ UNCHANGED <<store, stuff_queued, queue_lock, shutdown_done, prefetch,
                   pc, cur, nxt, handled, ret, enq, posted, acked, discarded,
                   fails, reports, hist, mgr_acked, cancels, store_fails>>

\* Calls of may_i_run, one after the other, the Manager answering anything.
MayIRunNext ==
    \/ MayIRunCall
    \/ \E resp \in MirResponses : MayIRunAnswered(resp)

SpecMayIRun == Init /\ [][MayIRunNext]_vars

\* The poller loop of one task, the Manager answering anything.
PollerNext ==
    \/ PollStart
    \/ \E resp \in MirResponses : PollAnswered(resp)
    \/ PollNap

SpecPoller == Init /\ [][PollerNext]_vars

\* ---- C15 ------------------------------------------------------------------------
\* The answer a returning call of may_i_run has just received.
LastAnswer == answers'[Len(answers')]

\* C15: may_i_run returns the may_keep_running of the answer it got; it calls
\* worker.change_status(s) exactly when the answer says false and requests
\* status s, and requests no status when the answer says true.
C15_ReturnsAnswerAndRequestsStatus ==
    /\ [](/\ Len(results) = Len(answers)
          /\ \A i \in DOMAIN answers : results[i] = answers[i].may_keep_running)
    /\ [][Len(answers') = Len(answers) + 1 =>
            /\ LastAnswer.may_keep_running => status_calls' = status_calls
            /\ (~LastAnswer.may_keep_running
                  /\ "status_requested" \in DOMAIN LastAnswer) =>
                 status_calls' = Append(status_calls,
                                        LastAnswer.status_requested)
            /\ "status_requested" \notin DOMAIN LastAnswer =>
                 status_calls' = status_calls]_vars

\* A call answered "false, go asleep" returned False and asked for "asleep";
\* a call answered "true" with a status in it asked for nothing.
C15_Witness ==
    /\ mir_pc = "idle"
    /\ Len(answers) = 2
    /\ answers[1] = [may_keep_running |-> TRUE, status_requested |-> "shutdown"]
    /\ answers[2] = [may_keep_running |-> FALSE, status_requested |-> "asleep"]
    /\ results = <<TRUE, FALSE>>
    /\ status_calls = <<"asleep">>

\* ---- C16 ------------------------------------------------------------------------
\* C16: the poller sleeps poll_interval between two GETs while the answers
\* say true; the first answer that says false makes it call
\* worker.stop_current_task() once, and no GET follows that answer.
C16_StopsOnceOnFirstFalse ==
    /\ [](mir_pc # "idle" => gets = naps + 1)
    /\ [](stops <= 1)
    /\ [](stops = 1 <=> \E i \in DOMAIN answers : ~answers[i].may_keep_running)
    /\ [](\A i \in DOMAIN answers :
             ~answers[i].may_keep_running => i = Len(answers))
    /\ [][gets' # gets => stops = 0]_vars
    /\ [][naps' # naps =>
            (answers # <<>> /\ answers[Len(answers)].may_keep_running)]_vars

\* Answers true then false: two GETs one poll_interval apart, the task stopped
\* once, the loop over.
C16_Witness ==
    /\ mir_pc = "done"
    /\ results = <<TRUE, FALSE>>
    /\ gets = 2
    /\ naps = 1
    /\ stops = 1

\* ---- cancellation of the task that runs work() ----------------------------------
\* Where work() is after asyncio.CancelledError was raised inside flush():
\* "except Exception" of flush_and_catch catches it where CancelledError is an
\* Exception (Python before 3.8), logs 'Unexpected exception in work loop' and
\* sleeps backoff_time; where it is a BaseException (3.8 on) it leaves work().
AfterCancelInPass(caught) == IF caught THEN "backoff" ELSE "cancelled"

\* Cancelled in wait_for(self._stuff_queued.wait(), ...):
\* "except asyncio.CancelledError: break", then 'Stopping work loop'.
CancelWait ==
    /\ pc["work"] = "wait"
    /\ cancels < MaxCancel
    /\ cancels' = cancels + 1
    /\ pc' = [pc EXCEPT !["work"] = "stopped"]
    /\ UNCHANGED <<store, stuff_queued, queue_lock, shutdown_done, prefetch,
                   cur, nxt, handled, ret, enq, posted, acked, discarded,
                   fails, reports, hist, mgr_acked, store_fails, poll>>

\* Cancelled in "await self._queue_lock" while another pass holds the lock.
CancelLockWait ==
    /\ pc["work"] = "flush"
    /\ ~LockFree(queue_lock)
    /\ cancels < MaxCancel
    /\ cancels' = cancels + 1
    /\ \E caught \in BOOLEAN :
         pc' = [pc EXCEPT !["work"] = AfterCancelInPass(caught)]
    /\ ret' = [ret EXCEPT !["work"] = "raised"]
    /\ UNCHANGED <<store, stuff_queued, queue_lock, shutdown_done, prefetch,
                   cur, nxt, handled, enq, posted, acked, discarded,
                   fails, reports, hist, mgr_acked, store_fails, poll>>

\* Cancelled in "await self.manager.post(...)": the with-block releases the
\* lock, the row stays in the store.
CancelPost ==
    /\ pc["work"] = "post"
    /\ cancels < MaxCancel
    /\ cancels' = cancels + 1
    /\ \E caught \in BOOLEAN :
         pc' = [pc EXCEPT !["work"] = AfterCancelInPass(caught)]
    /\ queue_lock' = "none"
    /\ ret' = [ret EXCEPT !["work"] = "raised"]
    /\ cur' = [cur EXCEPT !["work"] = NoRow]
    /\ nxt' = [nxt EXCEPT !["work"] = NoRow]
    /\ failed_uid' = Uid(cur["work"])
    /\ slept' = FALSE
    /\ retried' = FALSE
    /\ UNCHANGED <<store, stuff_queued, shutdown_done, prefetch, handled, enq,
                   posted, acked, discarded, fails, reports, crashes,
                   at_crash, restart_at, mgr_acked, store_fails, poll>>

\* Cancelled in "await asyncio.sleep(self.backoff_time)": raised inside the
\* except block, it leaves flush_and_catch and work().
CancelBackoff ==
    /\ pc["work"] = "backoff"
    /\ cancels < MaxCancel
    /\ cancels' = cancels + 1
    /\ pc' = [pc EXCEPT !["work"] = "cancelled"]
    /\ UNCHANGED <<store, stuff_queued, queue_lock, shutdown_done, prefetch,
                   cur, nxt, handled, ret, enq, posted, acked, discarded,
                   fails, reports, hist, mgr_acked, store_fails, poll>>

\* Producers, the drain loop, flush_and_report callers and a cancellation of
\* the loop's task at any of its suspension points.
CancelNext ==
    \/ LiveNext
    \/ CancelWait
    \/ CancelLockWait
    \/ CancelPost
    \/ CancelBackoff

SpecCancel == Init /\ [][CancelNext]_vars

\* ---- C17 ------------------------------------------------------------------------
\* C17: a cancellation of the task that runs work() ends the loop wherever it
\* is suspended: from then on work() is over, so it neither sleeps backoff_time
\* nor begins another pass.
C17_CancelEndsLoop ==
    [](cancels >= 1 => pc["work"] \in {"stopped", "cancelled"})

\* ---- failures of the SQLite store -------------------------------------------------
\* queue_size() or the SELECT of _queue() raises at the start of a pass: the
\* with-block releases the lock, the sqlite3 error reaches "except Exception"
\* of flush_and_catch or flush_and_report.
StoreFailsAtBegin(p) ==
    /\ pc[p] = "flush"
    /\ LockFree(queue_lock)
    /\ store_fails < MaxStoreFail
    /\ store_fails' = store_fails + 1
    /\ ret' = [ret EXCEPT ![p] = "raised"]
    /\ pc' = [pc EXCEPT ![p] = AfterRaise(p)]
    /\ IF p = "work"
       THEN failed_uid' = 0 /\ slept' = FALSE /\ retried' = FALSE
       ELSE UNCHANGED <<failed_uid, slept, retried>>
    /\ UNCHANGED <<store, stuff_queued, queue_lock, shutdown_done, prefetch,
                   cur, nxt, handled, enq, posted, acked, discarded, fails,
                   reports, crashes, at_crash, restart_at, mgr_acked,
                   cancels, poll>>

\* The POST was answered 2xx or 409 and then the store raises: either the
\* DELETE of _unqueue (the row stays), or, the row being deleted, the fetch
\* of the next row or the count after the loop.
StoreFailsInPass(p, deleted) ==
    /\ pc[p] = "post"
    /\ store_fails < MaxStoreFail
    /\ store_fails' = store_fails + 1
    /\ \E resp \in Responses :
        /\ ~Raises(resp)
        /\ Answer(p, resp)
    /\ store' = IF deleted THEN Unqueue(store, cur[p].rowid) ELSE store
    /\ queue_lock' = "none"
    /\ ret' = [ret EXCEPT ![p] = "raised"]
    /\ pc' = [pc EXCEPT ![p] = AfterRaise(p)]
    /\ cur' = [cur EXCEPT ![p] = NoRow]
    /\ nxt' = [nxt EXCEPT ![p] = NoRow]
    /\ IF p = "work"
       THEN failed_uid' = 0 /\ slept' = FALSE /\ retried' = FALSE
       ELSE UNCHANGED <<failed_uid, slept, retried>>
    /\ UNCHANGED <<stuff_queued, shutdown_done, prefetch, handled, enq,
                   posted, reports, crashes, at_crash, restart_at, cancels,
                   poll>>

\* The INSERT or the commit of queue() raises: the exception leaves queue()
\* before "self._stuff_queued.set()".
EnqueueFails ==
    /\ enq < LiveMaxEnq
    /\ store_fails < MaxStoreFail
    /\ store_fails' = store_fails + 1
    /\ UNCHANGED <<store, stuff_queued, queue_lock, shutdown_done, prefetch,
                   pc, cur, nxt, handled, ret, enq, posted, acked, discarded,
                   fails, reports, hist, mgr_acked, cancels, poll>>

\* Producers and the drain loop over a store that can fail.
StoreNext ==
    \/ LiveEnqueue
    \/ WorkStart
    \/ WorkCheck
    \/ WorkWake
    \/ WorkTimeout
    \/ BackoffDone
    \/ FlushBegin("work")
    \/ PostAnswered("work")
    \/ CrashPostRaises
    \/ StoreFailsAtBegin("work")
    \/ \E deleted \in BOOLEAN : StoreFailsInPass("work", deleted)
    \/ EnqueueFails

SpecStore == Init /\ [][StoreNext]_vars

\* ---- C18 ------------------------------------------------------------------------
\* A sqlite3 call of a pass of the drain loop has just raised.
StoreFailStep ==
    /\ store_fails' = store_fails + 1
    /\ pc["work"] \in {"flush", "post"}
    /\ pc'["work"] # pc["work"]

\* The insert of a queue() call has just raised.
InsertFailStep ==
    /\ store_fails' = store_fails + 1
    /\ pc' = pc

RestartNext ==
    \/ LiveEnqueue
    \/ WorkStart
    \/ WorkCheck
    \/ WorkWake
    \/ WorkTimeout
    \/ ReportCall
    \/ \E p \in Procs : FlushBegin(p)
    \/ \E p \in Procs : PostAnswered(p)
    \/ Crash

SpecRestart == Init /\ [][RestartNext]_vars

\* C19: no lost wake-up: once work() has started, the event is clear only
\* when the store is empty; within a run of the process the event is cleared
\* only by the step of a pass that takes the lock and finds no row, and that
\* same step clears it.
C19_NoLostWakeup ==
    /\ []((pc["work"] # "idle" /\ ~stuff_queued) => store = {})
    /\ [][(stuff_queued /\ ~stuff_queued' /\ crashes' = crashes) =>
            /\ store = {}
            /\ store' = {}
            /\ \E p \in Procs : /\ pc[p] = "flush"
                                /\ pc'[p] = AfterFlush(p)
                                /\ ret'[p] = "True"]_vars

\* After a crash and restart the loop has delivered what was queued, an
\* empty pass has cleared the event and the loop waits for the next enqueue.
C19_Witness ==
    /\ crashes = 1
    /\ at_crash # {}
    /\ pc["work"] = "wait"
    /\ ~stuff_queued
    /\ store = {}
    /\ enq = LiveMaxEnq
    /\ Enqueued \subseteq Answered

\* ---- C20 ------------------------------------------------------------------------
\* The Manager handles the POST in flight and acknowledges the update; its
\* answer is still on the way to flush().
ManagerAcks(p) ==
    /\ pc[p] = "post"
    /\ Uid(cur[p]) \notin mgr_acked
    /\ mgr_acked' = mgr_acked \cup {Uid(cur[p])}
    /\ UNCHANGED <<store, stuff_queued, queue_lock, shutdown_done, prefetch,
                   pc, cur, nxt, handled, ret, enq, posted, acked, discarded,
                   fails, reports, hist, ext0>>

\* The drain loop with crashes and restarts, where a crash or a lost answer
\* can come after the Manager acknowledged the update.
DupNext ==
    \/ CrashNext
    \/ ManagerAcks("work")

SpecDup == Init /\ [][DupNext]_vars

\* C20: at most one row of the store is already acknowledged by the Manager,
\* and while a POST is in flight it can only be the row of that POST; so the
\* rows a crash leaves behind hold at most one acknowledged update.
C20_AtMostOneAckedRowQueued ==
    /\ [](Cardinality(StoreUids(store) \cap mgr_acked) <= 1)
    /\ [](\A p \in Procs : pc[p] = "post" =>
             StoreUids(store) \cap mgr_acked \subseteq {Uid(cur[p])})
    /\ [][crashes' = crashes + 1 =>
            Cardinality(at_crash' \cap mgr_acked') <= 1]_vars

\* The process crashed after the Manager acknowledged an update and before
\* its row was deleted; restarted, the loop POSTs that update a second time,
\* with two more rows queued behind it.
C20_Witness ==
    /\ crashes = 1
    /\ pc["work"] = "post"
    /\ Uid(cur["work"]) \in at_crash \cap mgr_acked
    /\ Uid(cur["work"]) \notin Answered
    /\ Count(Uid(cur["work"])) = 2
    /\ fails = 0
    /\ Cardinality(store) = 3

\* ---- C21 ------------------------------------------------------------------------
\* The update the Manager rejects with an error on every attempt; the
\* updates queued before it are answered 2xx or 409.
Poisoned == 2

\* The row of the poisoned update is the oldest row of the store.
PoisonedIsOldest ==
    /\ store # {}
    /\ Uid(FetchAfter(store, 0)) = Poisoned

\* manager.post returns and flush() goes on; for the poisoned update the
\* answer is an error.
HolAnswered ==
    /\ PostAnswered("work")
    /\ Uid(cur["work"]) = Poisoned => fails' = fails + 1

\* The POST of the poisoned update raises in flush() (at most MaxFail times).
HolRaises ==
    /\ pc["work"] = "post"
    /\ Uid(cur["work"]) = Poisoned
    /\ PostRaises("work")

\* Producers and the drain loop against that Manager.
HolNext ==
    \/ LiveEnqueue
    \/ WorkStart
    \/ WorkCheck
    \/ WorkWake
    \/ WorkTimeout
    \/ BackoffDone
    \/ FlushBegin("work")
    \/ HolAnswered
    \/ HolRaises

\* work() is started, the event loop runs it whenever it can go on, every
\* sleep ends and the Manager answers every POST.
HolFairness ==
    /\ WF_vars(WorkStart)
    /\ WF_vars(WorkCheck)
    /\ WF_vars(WorkWake)
    /\ WF_vars(WorkTimeout)
    /\ WF_vars(BackoffDone)
    /\ WF_vars(FlushBegin("work"))
    /\ WF_vars(HolAnswered)
    /\ WF_vars(HolRaises)

SpecHol == Init /\ [][HolNext]_vars /\ HolFairness

\* C21: head-of-line blocking: the poisoned update never leaves the store and
\* no update queued after it is ever POSTed; while its row is the oldest the
\* store never loses a row and every POST is the first of a pass and is of
\* that row; and the loop keeps POSTing it, pass after pass, as many times as
\* the Manager rejects it (MaxFail here) and once more.
C21_HeadOfLineBlocking ==
    /\ [](\A i \in DOMAIN posted : posted[i].payload <= Poisoned)
    /\ [](enq >= Poisoned => Poisoned \in StoreUids(store))
    /\ [][PoisonedIsOldest =>
            /\ store \subseteq store'
            /\ queue_size(store') >= queue_size(store)
            /\ posted' # posted =>
                 /\ pc["work"] = "flush"
                 /\ posted' = Append(posted, [url |-> "/tasks/1/update",
                                              payload |-> Poisoned])]_vars
    /\ (enq >= Poisoned) ~> (Count(Poisoned) = MaxFail + 1)

\* The poisoned update is in flight for the third time, the update queued
\* after it has never been POSTed and waits in the store behind it.
C21_Witness ==
    /\ pc["work"] = "post"
    /\ Uid(cur["work"]) = Poisoned
    /\ Count(Poisoned) = MaxFail + 1
    /\ fails = MaxFail
    /\ 1 \in Answered
    /\ StoreUids(store) = {Poisoned, Poisoned + 1}
    /\ Poisoned + 1 \notin PostedUids
====
